---- MODULE Spec2Model ----
(***************************************************************************)
(* Model of src/dataset.py: the RAVDESS feature-extraction pipeline.       *)
(*                                                                         *)
(* Python values are represented as follows.                               *)
(*   str      a sequence of one-character strings                          *)
(*   None     the empty sequence (no str or ndarray bound to a name that   *)
(*            may hold None is empty)                                      *)
(*   list     a sequence                                                   *)
(*   ndarray  a record [shape |-> <<d1, ..., dk>>, data |-> nested         *)
(*            sequences, one level per dimension]                          *)
(* The audio library (librosa) is outside the repository: what it returns  *)
(* for a file is an input: AllAudios for one call of extract_features,     *)
(* Contents(p) for the file at path p of a directory tree.                 *)
(***************************************************************************)
EXTENDS Integers, Sequences, FiniteSets, TLC

\* ------------------------------------------------------------ configuration
RAW_DATA_PATH == <<"d","a","t","a","/","A","u","d","i","o","_","S","p","e","e","c","h","_","A","c","t","o","r","s","_","0","1","-","2","4">>
PROCESSED_PATH == <<"d","a","t","a","/","p","r","o","c","e","s","s","e","d">>
SAMPLE_RATE == 22050
N_MFCC == 40
MAX_LEN == 173

None == <<>>

EMOTIONS ==
    (<<"0","1">> :> <<"n","e","u","t","r","a","l">>) @@
    (<<"0","2">> :> <<"c","a","l","m">>) @@
    (<<"0","3">> :> <<"h","a","p","p","y">>) @@
    (<<"0","4">> :> <<"s","a","d">>) @@
    (<<"0","5">> :> <<"a","n","g","r","y">>) @@
    (<<"0","6">> :> <<"f","e","a","r","f","u","l">>) @@
    (<<"0","7">> :> <<"d","i","s","g","u","s","t">>) @@
    (<<"0","8">> :> <<"s","u","r","p","r","i","s","e","d">>)

\* dict.get: the value under the key, None when the key is absent
EMOTIONS_get(key) == IF key \in DOMAIN EMOTIONS THEN EMOTIONS[key] ELSE None

\* ------------------------------------------------------------------ bounds
\* most files a directory tree holds
MaxFiles == 2
\* frames by which the longest audio exceeds MAX_LEN
ExtraFrames == 2
\* distinct waveforms per duration
MaxSeed == 1

\* ----------------------------------------------------------- str functions
Min(a, b) == IF a < b THEN a ELSE b

StartsWith(s, prefix) ==
    Len(s) >= Len(prefix) /\ SubSeq(s, 1, Len(prefix)) = prefix

EndsWith(s, suffix) ==
    Len(s) >= Len(suffix) /\ SubSeq(s, Len(s) - Len(suffix) + 1, Len(s)) = suffix

\* str.split(sep) for a one-character separator: the maximal runs between
\* separators, empty runs included; never an empty list
split(s, sep) ==
    LET at == {k \in 1..Len(s) : s[k] = sep}
        \* where the n-th separator is; 0 before the first, Len(s) + 1 after the last
        nth(n) == IF n = 0 THEN 0
                  ELSE IF n > Cardinality(at) THEN Len(s) + 1
                  ELSE CHOOSE k \in at : Cardinality({h \in at : h <= k}) = n
    IN  [f \in 1..(Cardinality(at) + 1) |-> SubSeq(s, nth(f - 1) + 1, nth(f) - 1)]

\* the whole path taken for the name
basename_whole_path(path) == path

\* os.path.basename: what follows the last "/"
basename(path) ==
    IF \A k \in 1..Len(path) : path[k] # "/"
    THEN path
    ELSE LET k == CHOOSE j \in 1..Len(path) :
                      path[j] = "/" /\ \A h \in (j + 1)..Len(path) : path[h] # "/"
         IN  SubSeq(path, k + 1, Len(path))

\* os.path.join of two components
path_join(a, b) == a \o <<"/">> \o b

\* -------------------------------------------------------- ndarray functions
\* ndarray.T of a 2-D array
transpose(a) ==
    [shape |-> <<a.shape[2], a.shape[1]>>,
     data  |-> [r \in 1..a.shape[2] |-> [c \in 1..a.shape[1] |-> a.data[c][r]]]]

\* the zero rows put before the content instead of after it
np_pad_before(a, after) ==
    [shape |-> <<a.shape[1] + after, a.shape[2]>>,
     data  |-> [r \in 1..after |-> [c \in 1..a.shape[2] |-> 0]] \o a.data]

\* np.pad(a, ((0, after), (0, 0)), mode='constant') of a 2-D array
np_pad(a, after) ==
    [shape |-> <<a.shape[1] + after, a.shape[2]>>,
     data  |-> a.data \o [r \in 1..after |-> [c \in 1..a.shape[2] |-> 0]]]

\* a[-n:, :]: the last n rows instead of the first
slice_last_rows(a, n) ==
    [shape |-> <<Min(a.shape[1], n), a.shape[2]>>,
     data  |-> SubSeq(a.data, a.shape[1] - Min(a.shape[1], n) + 1, a.shape[1])]

\* a[:n, :] of a 2-D array
slice_rows(a, n) ==
    [shape |-> <<Min(a.shape[1], n), a.shape[2]>>,
     data  |-> SubSeq(a.data, 1, Min(a.shape[1], n))]

\* ------------------------------------------------------------------ inputs
\* paths the input tree may hold
PathFearful == path_join(RAW_DATA_PATH, <<"A","c","t","o","r","_","0","1","/","0","3","-","0","1","-","0","6","-","0","1","-","0","2","-","0","1","-","1","2",".","w","a","v">>)
PathSurprised == path_join(RAW_DATA_PATH, <<"A","c","t","o","r","_","0","2","/","0","3","-","0","1","-","0","8","-","0","2","-","0","1","-","0","1","-","0","2",".","w","a","v">>)
PathBadName == path_join(RAW_DATA_PATH, <<"b","a","d","n","a","m","e",".","w","a","v">>)
PathUnknownCode == path_join(RAW_DATA_PATH, <<"A","c","t","o","r","_","0","1","/","0","3","-","0","1","-","0","9","-","0","1","-","0","1","-","0","1","-","0","1",".","w","a","v">>)
PathThreeFields == path_join(RAW_DATA_PATH, <<"A","c","t","o","r","_","0","3","/","0","3","-","0","1","-","0","6",".","w","a","v">>)
PathNotWav == path_join(RAW_DATA_PATH, <<"A","c","t","o","r","_","0","1","/","n","o","t","e","s",".","t","x","t">>)

Pool == {PathFearful, PathSurprised, PathBadName, PathUnknownCode, PathThreeFields, PathNotWav}

\* what the audio library makes of a file: it fails to decode it, it decodes
\* it and fails to compute the coefficients, or it yields T frames
Audio(kind, T, seed) == [kind |-> kind, T |-> T, seed |-> seed]

\* every duration from no frame to ExtraFrames past MAX_LEN
AllAudios ==
    {Audio("load_error", 0, 0), Audio("mfcc_error", 0, 0)} \cup
    {Audio("ok", T, seed) : T \in 0..(MAX_LEN + ExtraFrames), seed \in 0..MaxSeed}

ShortAudio == Audio("ok", MAX_LEN - 1, 0)
LongAudio == Audio("ok", MAX_LEN + ExtraFrames, 1)

\* the audio contents a tree may hold under each path
Contents(p) ==
    IF p = PathFearful
    THEN {Audio("load_error", 0, 0), Audio("mfcc_error", 0, 0), ShortAudio}
    ELSE IF p = PathSurprised THEN {Audio("load_error", 0, 0), LongAudio}
    ELSE IF p = PathThreeFields THEN {LongAudio}
    ELSE {ShortAudio}

\* the coefficient the library computes for a waveform at (coefficient c, frame t)
Coef(y, c, t) == ((y.seed + 3 * c + 5 * t) % 7) - 3

\* ------------------------------------------------------------------- state
VARIABLES
    disk,       \* the input tree: path |-> audio content
    fs,         \* the output side of the file system
    pc,         \* position in process_data
    log,        \* what has been printed
    wav_files,  \* process_data's locals ...
    i,          \* index of the file the loop is at (enumerate)
    file_name,
    parts,
    label,
    features,
    X,          \* the list X
    y,          \* the list y
    X_arr,      \* X once rebound to an ndarray
    y_arr       \* y once rebound to an ndarray

vars == <<disk, fs, pc, log, wav_files, i, file_name, parts, label, features, X, y, X_arr, y_arr>>

\* ------------------------------------------------------- extract_features
\* librosa.load(file_path, sr=SAMPLE_RATE)
librosa_load(file_path, sr) ==
    IF disk[file_path].kind = "load_error"
    THEN [raised |-> TRUE, e |-> "cannot decode"]
    ELSE [raised |-> FALSE, y |-> disk[file_path], sr |-> sr]

\* librosa.feature.mfcc(y=y, sr=sr, n_mfcc=N_MFCC): shape (n_mfcc, T)
librosa_mfcc(wave, sr, n_mfcc) ==
    IF wave.kind = "mfcc_error"
    THEN [raised |-> TRUE, e |-> "cannot compute"]
    ELSE [raised |-> FALSE,
          ret |-> [shape |-> <<n_mfcc, wave.T>>,
                   data  |-> [c \in 1..n_mfcc |-> [t \in 1..wave.T |-> Coef(wave, c, t)]]]]

\* padding alone, the else branch lost
fix_length_pad_only(mfcc) ==
    IF mfcc.shape[1] < MAX_LEN
    THEN np_pad(mfcc, MAX_LEN - mfcc.shape[1])
    ELSE mfcc

\* the pad-or-truncate statement
fix_length(mfcc) ==
    IF mfcc.shape[1] < MAX_LEN
    THEN np_pad(mfcc, MAX_LEN - mfcc.shape[1])
    ELSE slice_rows(mfcc, MAX_LEN)

\* the exception let through
on_exception_reraise(file_path, e) ==
    [raised |-> TRUE, ret |-> None, out |-> <<>>]

\* the except clause: print, return None
on_exception(file_path, e) ==
    [raised |-> FALSE, ret |-> None,
     out |-> <<[msg |-> "Error processing", file |-> file_path, e |-> e]>>]

\* the call's outcome: whether it raised, what it returned, what it printed
extract_features(file_path) ==
    LET loaded == librosa_load(file_path, SAMPLE_RATE) IN
    IF loaded.raised THEN on_exception(file_path, loaded.e)
    ELSE LET m == librosa_mfcc(loaded.y, loaded.sr, N_MFCC) IN
         IF m.raised THEN on_exception(file_path, m.e)
         ELSE [raised |-> FALSE, ret |-> fix_length(transpose(m.ret)), out |-> <<>>]

\* ------------------------------------------------------------ process_data
\* glob.glob(RAW_DATA_PATH/**/*.wav, recursive=True): the .wav files at any
\* depth under RAW_DATA_PATH, as a set
glob_wav(tree) ==
    {p \in DOMAIN tree : StartsWith(p, RAW_DATA_PATH \o <<"/">>) /\ EndsWith(p, <<".","w","a","v">>)}

\* the orders glob may list a set of paths in
Orderings(S) ==
    {s \in [1..Cardinality(S) -> S] : \A a, b \in 1..Cardinality(S) : s[a] = s[b] => a = b}

\* np.array of a list of 2-D arrays: stacked when the shapes agree
np_array_stack(l) ==
    IF l = <<>> THEN [raised |-> FALSE, ret |-> [shape |-> <<0>>, data |-> <<>>]]
    ELSE IF \A k \in 1..Len(l) : l[k].shape = l[1].shape
    THEN [raised |-> FALSE,
          ret |-> [shape |-> <<Len(l)>> \o l[1].shape,
                   data  |-> [k \in 1..Len(l) |-> l[k].data]]]
    ELSE [raised |-> TRUE]

\* np.array of a list of str
np_array_str(l) == [shape |-> <<Len(l)>>, data |-> l]

\* a[..., np.newaxis]: one more dimension of size 1, last
RECURSIVE wrap_scalars(_, _)
wrap_scalars(data, ndim) ==
    IF ndim = 0 THEN <<data>>
    ELSE [k \in 1..Len(data) |-> wrap_scalars(data[k], ndim - 1)]

newaxis_last(a) ==
    [shape |-> a.shape \o <<1>>, data |-> wrap_scalars(a.data, Len(a.shape))]

\* the directory trees a run may find: at most MaxFiles files
Trees ==
    UNION {{t \in [S -> UNION {Contents(p) : p \in S}] : \A p \in S : t[p] \in Contents(p)} :
           S \in {Q \in SUBSET Pool : Cardinality(Q) <= MaxFiles}}

Init ==
    /\ disk \in Trees
    /\ fs \in {[dir_exists |-> d, X_npy |-> None, y_npy |-> None, calls |-> <<>>] : d \in BOOLEAN}
    /\ pc = "start"
    /\ log = <<>>
    /\ wav_files = <<>>
    /\ i = 0
    /\ file_name = <<>>
    /\ parts = <<>>
    /\ label = None
    /\ features = None
    /\ X = <<>>
    /\ y = <<>>
    /\ X_arr = None
    /\ y_arr = None

\* the discovery without the early return
DiscoverNoEarlyReturn ==
    /\ pc = "start"
    /\ \E order \in Orderings(glob_wav(disk)) :
        /\ wav_files' = order
        /\ log' = log \o <<[msg |-> "Looking for data in", path |-> RAW_DATA_PATH],
                           [msg |-> "Found files", n |-> Len(order)]>>
        /\ X' = <<>>
        /\ y' = <<>>
        /\ i' = 0
        /\ pc' = "loop"
    /\ UNCHANGED <<disk, fs, file_name, parts, label, features, X_arr, y_arr>>

\* the discovery, up to the loop
Discover ==
    /\ pc = "start"
    /\ \E order \in Orderings(glob_wav(disk)) :
        /\ wav_files' = order
        /\ IF order = <<>>
           THEN /\ log' = log \o <<[msg |-> "Looking for data in", path |-> RAW_DATA_PATH],
                                   [msg |-> "No files found!"]>>
                /\ pc' = "done"
                /\ UNCHANGED <<X, y, i>>
           ELSE /\ log' = log \o <<[msg |-> "Looking for data in", path |-> RAW_DATA_PATH],
                                   [msg |-> "Found files", n |-> Len(order)]>>
                /\ X' = <<>>
                /\ y' = <<>>
                /\ i' = 0
                /\ pc' = "loop"
    /\ UNCHANGED <<disk, fs, file_name, parts, label, features, X_arr, y_arr>>

\* a short name given no label instead of being skipped
ParseNameNoSkip ==
    /\ pc = "loop"
    /\ i < Len(wav_files)
    /\ \E name \in {basename(wav_files[i + 1])} : \E fields \in {split(name, "-")} :
           /\ log' = IF i % 100 = 0
                     THEN Append(log, [msg |-> "Processing", i |-> i, n |-> Len(wav_files)])
                     ELSE log
           /\ file_name' = name
           /\ parts' = fields
           /\ label' = IF Len(fields) < 3 THEN None ELSE EMOTIONS_get(fields[3])
           /\ pc' = "extract"
           /\ UNCHANGED i
    /\ UNCHANGED <<disk, fs, wav_files, features, X, y, X_arr, y_arr>>

\* the head of one iteration: progress notice, name parsing, label lookup
ParseName ==
    /\ pc = "loop"
    /\ i < Len(wav_files)
    /\ \E name \in {basename(wav_files[i + 1])} : \E fields \in {split(name, "-")} :
           /\ log' = IF i % 100 = 0
                     THEN Append(log, [msg |-> "Processing", i |-> i, n |-> Len(wav_files)])
                     ELSE log
           /\ file_name' = name
           /\ parts' = fields
           /\ IF Len(fields) < 3
              THEN /\ i' = i + 1
                   /\ pc' = "loop"
                   /\ UNCHANGED label
              ELSE /\ label' = EMOTIONS_get(fields[3])
                   /\ pc' = "extract"
                   /\ UNCHANGED i
    /\ UNCHANGED <<disk, fs, wav_files, features, X, y, X_arr, y_arr>>

\* features = extract_features(file)
Extract ==
    /\ pc = "extract"
    /\ \E r \in {extract_features(wav_files[i + 1])} :
           /\ log' = log \o r.out
           /\ IF r.raised
              THEN pc' = "raised" /\ UNCHANGED features
              ELSE pc' = "append" /\ features' = r.ret
    /\ UNCHANGED <<disk, fs, wav_files, i, file_name, parts, label, X, y, X_arr, y_arr>>

\* each append under its own test
AppendSampleSeparateTests ==
    /\ pc = "append"
    /\ X' = IF features # None THEN Append(X, features) ELSE X
    /\ y' = IF label # None THEN Append(y, label) ELSE y
    /\ i' = i + 1
    /\ pc' = "loop"
    /\ UNCHANGED <<disk, fs, log, wav_files, file_name, parts, label, features, X_arr, y_arr>>

\* the guarded appends, and on to the next file
AppendSample ==
    /\ pc = "append"
    /\ IF features # None /\ label # None
       THEN X' = Append(X, features) /\ y' = Append(y, label)
       ELSE UNCHANGED <<X, y>>
    /\ i' = i + 1
    /\ pc' = "loop"
    /\ UNCHANGED <<disk, fs, log, wav_files, file_name, parts, label, features, X_arr, y_arr>>

\* after the loop: both lists to arrays, the channel axis, the summary
Stack ==
    /\ pc = "loop"
    /\ i = Len(wav_files)
    /\ \E stacked \in {np_array_stack(X)} :
           IF stacked.raised
           THEN pc' = "raised" /\ UNCHANGED <<X_arr, y_arr, log>>
           ELSE \E X_new \in {newaxis_last(stacked.ret)} : \E y_new \in {np_array_str(y)} :
                /\ X_arr' = X_new
                /\ y_arr' = y_new
                /\ log' = log \o <<[msg |-> "Extraction complete."],
                                   [msg |-> "X shape", shape |-> X_new.shape],
                                   [msg |-> "y shape", shape |-> y_new.shape]>>
                /\ pc' = "makedirs"
    /\ UNCHANGED <<disk, fs, wav_files, i, file_name, parts, label, features, X, y>>

\* os.makedirs without exist_ok: FileExistsError on an existing directory
MakeDirsNoExistOk ==
    /\ pc = "makedirs"
    /\ IF fs.dir_exists
       THEN pc' = "raised" /\ UNCHANGED fs
       ELSE /\ fs' = [fs EXCEPT !.dir_exists = TRUE,
                                !.calls = Append(@, [call |-> "makedirs", path |-> PROCESSED_PATH])]
            /\ pc' = "save_X"
    /\ UNCHANGED <<disk, log, wav_files, i, file_name, parts, label, features, X, y, X_arr, y_arr>>

\* os.makedirs(PROCESSED_PATH, exist_ok=True)
MakeDirs ==
    /\ pc = "makedirs"
    /\ fs' = [fs EXCEPT !.dir_exists = TRUE,
                        !.calls = Append(@, [call |-> "makedirs", path |-> PROCESSED_PATH])]
    /\ pc' = "save_X"
    /\ UNCHANGED <<disk, log, wav_files, i, file_name, parts, label, features, X, y, X_arr, y_arr>>

\* np.save(PROCESSED_PATH/X.npy, X)
SaveX ==
    /\ pc = "save_X"
    /\ fs' = [fs EXCEPT !.X_npy = X_arr,
                        !.calls = Append(@, [call |-> "save", path |-> path_join(PROCESSED_PATH, <<"X",".","n","p","y">>)])]
    /\ pc' = "save_y"
    /\ UNCHANGED <<disk, log, wav_files, i, file_name, parts, label, features, X, y, X_arr, y_arr>>

\* np.save(PROCESSED_PATH/y.npy, y), and the closing notice
SaveY ==
    /\ pc = "save_y"
    /\ fs' = [fs EXCEPT !.y_npy = y_arr,
                        !.calls = Append(@, [call |-> "save", path |-> path_join(PROCESSED_PATH, <<"y",".","n","p","y">>)])]
    /\ log' = Append(log, [msg |-> "Data saved to", path |-> PROCESSED_PATH])
    /\ pc' = "done"
    /\ UNCHANGED <<disk, wav_files, i, file_name, parts, label, features, X, y, X_arr, y_arr>>

Next ==
    \/ Discover
    \/ ParseName
    \/ Extract
    \/ AppendSample
    \/ Stack
    \/ MakeDirs
    \/ SaveX
    \/ SaveY

Spec == Init /\ [][Next]_vars

\* a sequential program always takes its next step
FairSpec == Spec /\ WF_vars(Next)

\* ------------------------------------------- extract_features on its own
\* one call of extract_features(PathFearful), on any audio content
InitExtract ==
    /\ disk \in [{PathFearful} -> AllAudios]
    /\ fs = [dir_exists |-> FALSE, X_npy |-> None, y_npy |-> None, calls |-> <<>>]
    /\ pc = "call"
    /\ log = <<>>
    /\ wav_files = <<>>
    /\ i = 0
    /\ file_name = <<>>
    /\ parts = <<>>
    /\ label = None
    /\ features = None
    /\ X = <<>>
    /\ y = <<>>
    /\ X_arr = None
    /\ y_arr = None

CallExtract ==
    /\ pc = "call"
    /\ \E r \in {extract_features(PathFearful)} :
           /\ log' = log \o r.out
           /\ IF r.raised
              THEN pc' = "raised" /\ UNCHANGED features
              ELSE pc' = "returned" /\ features' = r.ret
    /\ UNCHANGED <<disk, fs, wav_files, i, file_name, parts, label, X, y, X_arr, y_arr>>

SpecExtract == InitExtract /\ [][CallExtract]_vars

\* ------------------------------------------------------------- properties
\* the fields of a path's name, and what makes a file a valid sample
NameFields(p) == split(basename(p), "-")
IsValidFile(p) ==
    /\ Len(NameFields(p)) >= 3
    /\ NameFields(p)[3] \in DOMAIN EMOTIONS
    /\ disk[p].kind = "ok"
DecodeFails(p) == disk[p].kind # "ok"
NumValid == Cardinality({p \in glob_wav(disk) : IsValidFile(p)})
HyphenCount(s) == Cardinality({k \in 1..Len(s) : s[k] = "-"})
InLoop == pc \in {"loop", "extract", "append"}
AfterLoop == pc \in {"makedirs", "save_X", "save_y", "done"} /\ wav_files # <<>>

\* the frames extract_features was given, as rows of coefficients
ComputedRow(a, r) == [c \in 1..N_MFCC |-> Coef(a, c, r)]

\* C1: whenever extract_features returns a matrix, it has exactly MAX_LEN
\* rows of N_MFCC columns each, whatever the number of frames of the audio.
C1_FixedShape ==
    (pc = "returned" /\ features # None) =>
        /\ features.shape = <<MAX_LEN, N_MFCC>>
        /\ Len(features.data) = MAX_LEN
        /\ \A r \in 1..Len(features.data) : Len(features.data[r]) = N_MFCC

C1_Witness ==
    /\ pc = "returned"
    /\ features # None
    /\ disk[PathFearful].T > MAX_LEN

\* C2: a run over N valid files and M undecodable ones (at least one file)
\* saves a feature tensor of shape (N, MAX_LEN, N_MFCC, 1) and a label
\* vector of length N.
C2_EndToEnd ==
    (/\ pc = "done"
     /\ wav_files # <<>>
     /\ \A p \in glob_wav(disk) : IsValidFile(p) \/ DecodeFails(p)) =>
        /\ fs.X_npy.shape = <<NumValid, MAX_LEN, N_MFCC, 1>>
        /\ Len(fs.X_npy.data) = NumValid
        /\ fs.y_npy.shape = <<NumValid>>
        /\ Len(fs.y_npy.data) = NumValid

\* C2, with at least one valid file: the same shapes.
C2_EndToEndSomeValid ==
    (/\ pc = "done"
     /\ wav_files # <<>>
     /\ NumValid >= 1) =>
        /\ fs.X_npy.shape = <<NumValid, MAX_LEN, N_MFCC, 1>>
        /\ Len(fs.X_npy.data) = NumValid
        /\ fs.y_npy.shape = <<NumValid>>
        /\ Len(fs.y_npy.data) = NumValid

\* the emotion table as the documentation of the file names gives it
C3_Expected(code) ==
    CASE code = <<"0","1">> -> <<"n","e","u","t","r","a","l">>
      [] code = <<"0","2">> -> <<"c","a","l","m">>
      [] code = <<"0","3">> -> <<"h","a","p","p","y">>
      [] code = <<"0","4">> -> <<"s","a","d">>
      [] code = <<"0","5">> -> <<"a","n","g","r","y">>
      [] code = <<"0","6">> -> <<"f","e","a","r","f","u","l">>
      [] code = <<"0","7">> -> <<"d","i","s","g","u","s","t">>
      [] code = <<"0","8">> -> <<"s","u","r","p","r","i","s","e","d">>
      [] OTHER -> None

\* the fields joined back with hyphens
RECURSIVE C3_Join(_)
C3_Join(fields) ==
    IF Len(fields) = 1 THEN fields[1]
    ELSE fields[1] \o <<"-">> \o C3_Join(Tail(fields))

\* C3: the label of a file is decided by its basename alone: the name is
\* what follows the last "/", its hyphen-delimited fields are at least 3 when
\* a label is derived, the label is the emotion of the third field when that
\* is one of the 8 codes and None otherwise; no None is ever among the labels,
\* which are no more than the files met so far whose name has such a code.
C3_LabelFromBasename ==
    /\ pc \in {"extract", "append"} =>
        /\ \A k \in 1..Len(file_name) : file_name[k] # "/"
        /\ EndsWith(wav_files[i + 1], <<"/">> \o file_name)
        /\ C3_Join(parts) = file_name
        /\ \A f \in 1..Len(parts) : HyphenCount(parts[f]) = 0
        /\ Len(parts) >= 3
        /\ label = C3_Expected(parts[3])
        /\ (wav_files[i + 1] = PathFearful) => (label = <<"f","e","a","r","f","u","l">>)
    /\ InLoop =>
        /\ \A k \in 1..Len(y) : y[k] # None
        /\ Len(y) <= Cardinality({j \in 1..i :
                          /\ HyphenCount(basename(wav_files[j])) >= 2
                          /\ C3_Expected(NameFields(wav_files[j])[3]) # None})
    /\ AfterLoop => \A k \in 1..Len(y_arr.data) : y_arr.data[k] # None

C3_Witness ==
    /\ pc = "append"
    /\ wav_files[i + 1] = PathFearful
    /\ label = <<"f","e","a","r","f","u","l">>

\* C4: audio of T < MAX_LEN frames gives a matrix whose first T rows are the
\* T computed rows in order and whose remaining rows are all zero.
C4_ZeroPadded ==
    (pc = "returned" /\ disk[PathFearful].kind = "ok" /\ disk[PathFearful].T < MAX_LEN) =>
        /\ features # None
        /\ Len(features.data) = MAX_LEN
        /\ \A r \in 1..disk[PathFearful].T :
               features.data[r] = ComputedRow(disk[PathFearful], r)
        /\ \A r \in (disk[PathFearful].T + 1)..MAX_LEN :
               \A c \in 1..N_MFCC : features.data[r][c] = 0

C4_Witness ==
    /\ pc = "returned"
    /\ features # None
    /\ disk[PathFearful].T \in 1..(MAX_LEN - 1)

\* C5: audio of T > MAX_LEN frames gives exactly the first MAX_LEN computed
\* rows, in order; audio of T = MAX_LEN frames gives the computed matrix
\* unchanged.
C5_Truncated ==
    (pc = "returned" /\ disk[PathFearful].kind = "ok" /\ disk[PathFearful].T >= MAX_LEN) =>
        /\ features # None
        /\ features.shape = <<MAX_LEN, N_MFCC>>
        /\ Len(features.data) = MAX_LEN
        /\ \A r \in 1..MAX_LEN : features.data[r] = ComputedRow(disk[PathFearful], r)
        /\ (disk[PathFearful].T = MAX_LEN) =>
               features = transpose(librosa_mfcc(disk[PathFearful], SAMPLE_RATE, N_MFCC).ret)

C5_Witness ==
    /\ pc = "returned"
    /\ features # None
    /\ disk[PathFearful].T = MAX_LEN + ExtraFrames

\* C6: a run that discovers no .wav file prints its notice and ends at once:
\* no makedirs, no save, no file written, no exception.
C6_NoFilesNoOutput ==
    (glob_wav(disk) = {}) =>
        /\ pc \in {"start", "done"}
        /\ fs.calls = <<>>
        /\ fs.X_npy = None
        /\ fs.y_npy = None
        /\ (pc = "done") =>
               /\ wav_files = <<>>
               /\ log[Len(log)].msg = "No files found!"

C6_Witness ==
    /\ pc = "done"
    /\ wav_files = <<>>
    /\ PathNotWav \in DOMAIN disk
    /\ ~fs.dir_exists

\* the error notices printed for a path
ErrorNotices(p) ==
    {k \in 1..Len(log) : log[k].msg = "Error processing" /\ log[k].file = p}

\* the files among the first n discovered that are valid samples
ValidAmongFirst(n) == {j \in 1..n : IsValidFile(wav_files[j])}

\* C7: an error inside extract_features never leaves it: the call returns
\* None after one notice naming the file and the error; the file is in
\* neither list, it is tried once only, and the loop goes through every file.
C7_ErrorsCaughtAndSkipped ==
    /\ pc # "raised"
    /\ (pc = "append" /\ DecodeFails(wav_files[i + 1])) =>
        /\ features = None
        /\ log[Len(log)].msg = "Error processing"
        /\ log[Len(log)].file = wav_files[i + 1]
        /\ log[Len(log)].e = (IF disk[wav_files[i + 1]].kind = "load_error"
                              THEN "cannot decode" ELSE "cannot compute")
    /\ InLoop =>
        /\ \A j \in 1..Len(wav_files) :
               Cardinality(ErrorNotices(wav_files[j])) =
                   IF /\ DecodeFails(wav_files[j])
                      /\ Len(NameFields(wav_files[j])) >= 3
                      /\ (j <= i \/ (j = i + 1 /\ pc = "append"))
                   THEN 1 ELSE 0
        /\ Len(X) = Cardinality(ValidAmongFirst(i))
        /\ Len(y) = Cardinality(ValidAmongFirst(i))
    /\ AfterLoop => i = Len(wav_files)

C7_Witness ==
    /\ pc = "done"
    /\ wav_files = <<PathFearful, PathSurprised>>
    /\ disk[PathFearful].kind = "mfcc_error"
    /\ Cardinality(ErrorNotices(PathFearful)) = 1
    /\ fs.y_npy.data = << <<"s","u","r","p","r","i","s","e","d">> >>

\* C8: a file whose name has fewer than 3 hyphen-delimited fields is skipped
\* in one step: no extraction, nothing added to either list, no notice but
\* the progress one, and the loop is at the next file.
C8_BadNameSkipped ==
    [][(pc = "loop" /\ i < Len(wav_files) /\ HyphenCount(basename(wav_files[i + 1])) < 2) =>
           /\ pc' = "loop"
           /\ i' = i + 1
           /\ X' = X
           /\ y' = y
           /\ features' = features
           /\ fs' = fs
           /\ \A k \in (Len(log) + 1)..Len(log') : log'[k].msg = "Processing"]_vars

C8_Witness ==
    /\ pc = "loop"
    /\ i >= 1
    /\ i < Len(wav_files)
    /\ wav_files[i] = PathBadName
    /\ X = <<>>

\* the calls a run that found files makes on the output directory
ExpectedCalls ==
    <<[call |-> "makedirs", path |-> PROCESSED_PATH],
      [call |-> "save", path |-> path_join(PROCESSED_PATH, <<"X",".","n","p","y">>)],
      [call |-> "save", path |-> path_join(PROCESSED_PATH, <<"y",".","n","p","y">>)]>>

C9_Safety ==
    /\ pc # "raised"
    /\ Len(fs.calls) <= 3
    /\ fs.calls = SubSeq(ExpectedCalls, 1, Len(fs.calls))
    /\ (fs.calls # <<>>) =>
        /\ pc \in {"save_X", "save_y", "done"}
        /\ i = Len(wav_files)
        /\ fs.dir_exists
    /\ (fs.X_npy # None) => (Len(fs.calls) >= 2 /\ fs.X_npy = X_arr)
    /\ (fs.y_npy # None) => (Len(fs.calls) = 3 /\ fs.y_npy = y_arr)
    /\ (Len(fs.calls) >= 2) => fs.X_npy # None
    /\ (Len(fs.calls) = 3) => fs.y_npy # None
    /\ (pc = "done" /\ wav_files # <<>>) => fs.calls = ExpectedCalls

\* C9: a run that found files goes through them one by one, each once, and
\* only then creates the directory, saves X.npy and saves y.npy, once each in
\* that order; nothing is written during the loop; every run ends.
C9_PersistOnceAtEnd ==
    /\ []C9_Safety
    /\ [][InLoop => (/\ fs' = fs
                     /\ pc' \in {"loop", "extract", "append", "makedirs"}
                     /\ i' \in {i, i + 1}
                     /\ (pc' = "makedirs") => (i = Len(wav_files)))]_vars
    /\ <>(pc = "done")

C9_Witness ==
    /\ pc = "done"
    /\ Len(wav_files) = MaxFiles
    /\ fs.calls = ExpectedCalls
    /\ fs.X_npy = X_arr
    /\ fs.y_npy = y_arr

\* the indices, in order, of the valid samples among the first n files
RECURSIVE C10_Retained(_)
C10_Retained(n) ==
    IF n = 0 THEN <<>>
    ELSE C10_Retained(n - 1) \o (IF IsValidFile(wav_files[n]) THEN <<n>> ELSE <<>>)

====
